---- MODULE Spec2Model ----
(***************************************************************************)
(* Token filters, analyzers and the streaming token counter of the        *)
(* tantivy-tokenizers crate.                                               *)
(*                                                                         *)
(* A character is a one-element string; a code point that has no ASCII     *)
(* spelling is written by its number ("U2019").  A text or a token text    *)
(* is a sequence of characters.                                            *)
(***************************************************************************)
EXTENDS Naturals, Sequences, FiniteSets

VARIABLES
    analyzer,   \* the TextAnalyzer instance: its constructor's name
    text,       \* the document handed to token_stream
    chars,      \* the tokenizer's char iterator: index of the next unread character
    token,      \* the Token buffer the tokenizer owns and the filters edit in place
    out,        \* the tokens the stream has yielded for this document, in order
    compared,   \* the texts the stopword predicate was evaluated on, in order
    count,      \* count_tokens' running counter
    pc,         \* "idle" | "streaming" | "done"
    docs,       \* documents this instance has been given so far
    tok,        \* filter harness: the token text a single filter is applied to
    exc,        \* filter harness: the exception list of the OuterPunctuationFilter
    prev,       \* filter harness: the token text before the last filter applied
    cur,        \* filter harness: the token text now
    fpc,        \* filter harness: which filters have run
    base,       \* expander harness: the base stopword list
    expanded,   \* expander harness: the expanded list
    epc         \* expander harness: "start" | "done"

vars == <<analyzer, text, chars, token, out, compared, count, pc, docs,
          tok, exc, prev, cur, fpc, base, expanded, epc>>

pipelineVars == <<analyzer, text, chars, token, out, compared, count, pc, docs>>
filterVars == <<tok, exc, prev, cur, fpc>>
expandVars == <<base, expanded, epc>>

(***************************************************************************)
(* Bounds of the model.                                                    *)
(***************************************************************************)
MaxTokens == 2      \* whitespace-separated pieces of a document
MaxDocs == 2        \* documents given to one analyzer instance
MaxLen == 4         \* characters of a token text in the filter harness
MaxBase == 3        \* entries of a base list in the expander harness
MaxCustom == 2      \* tokens a caller-supplied analyzer yields
MaxChars == 3       \* characters of a document spelled over TextAlphabet

\* usize::MAX, the position of a stopped token; usize is narrowed to 8 bits.
USIZE_MAX == 255

(***************************************************************************)
(* Characters.                                                             *)
(***************************************************************************)
\* Faulty variant: the table without the fullwidth apostrophe.
APOSTROPHES_without_fullwidth ==
    <<"U0027", "U2019", "U02BC", "U02BB", "U055A", "UA78B", "UA78C">>

APOSTROPHES ==
    <<"U0027", "U2019", "U02BC", "U02BB", "U055A", "UA78B", "UA78C", "UFF07">>

ApostropheSet == {APOSTROPHES[i] : i \in 1..Len(APOSTROPHES)}

\* Unicode general category P* among the characters of the model: ASCII
\* punctuation and the apostrophes U+0027 (Po), U+2019 (Pf), U+055A (Po),
\* U+FF07 (Po).  U+02BC and U+02BB are Lm, U+A78B is Lu, U+A78C is Ll.
PunctuationChars ==
    {".", "!", ",", "-", "#", "@", "U0027", "U2019", "U055A", "UFF07"}

is_punctuation(c) == c \in PunctuationChars

is_ascii_whitespace(c) == c = " "

\* Pairs <<upper, lower>> of the cased characters of the model.
CasePairs ==
    { <<"A", "a">>, <<"E", "e">>, <<"H", "h">>, <<"J", "j">>, <<"N", "n">>,
      <<"O", "o">>, <<"S", "s">>, <<"T", "t">>, <<"UA78B", "UA78C">> }

to_lowercase(c) ==
    IF \E p \in CasePairs : p[1] = c
    THEN (CHOOSE p \in CasePairs : p[1] = c)[2]
    ELSE c

(***************************************************************************)
(* Sequence helpers.                                                       *)
(***************************************************************************)
Slice(s, from, to) == [i \in 1..(IF to >= from THEN to - from + 1 ELSE 0) |-> s[from + i - 1]]

RECURSIVE SeqsUpTo(_, _)
SeqsUpTo(S, n) ==
    IF n = 0 THEN {<< >>}
    ELSE LET shorter == SeqsUpTo(S, n - 1)
         IN  shorter \cup {Append(s, x) : s \in {t \in shorter : Len(t) = n - 1}, x \in S}

Range(s) == {s[i] : i \in 1..Len(s)}

(***************************************************************************)
(* filters/mod.rs: the stopword expander.                                  *)
(***************************************************************************)
contains_apostrophe(s) == \E i \in 1..Len(s) : s[i] \in ApostropheSet

\* Faulty variant: only the first apostrophe is replaced.
replace_apostrophes_first_only(s, replacement) ==
    [i \in 1..Len(s) |->
        IF s[i] \in ApostropheSet /\ \A j \in 1..(i - 1) : s[j] \notin ApostropheSet
        THEN replacement ELSE s[i]]

replace_apostrophes(s, replacement) ==
    [i \in 1..Len(s) |-> IF s[i] \in ApostropheSet THEN replacement ELSE s[i]]

RECURSIVE expand_stopwords_with_apostrophe_variants(_)
expand_stopwords_with_apostrophe_variants(base_stopwords) ==
    IF base_stopwords = << >> THEN << >>
    ELSE LET word == Head(base_stopwords)
             group == IF contains_apostrophe(word)
                      THEN [k \in 1..Len(APOSTROPHES) |->
                                replace_apostrophes(word, APOSTROPHES[k])]
                      ELSE <<word>>
         IN  group \o expand_stopwords_with_apostrophe_variants(Tail(base_stopwords))

\* filters/constants.rs: the curated list, cut to the entries the tests name.
STOPWORDS_EN_BASE ==
    << <<"t", "h", "e">>,
       <<"d", "o", "n", "U0027", "t">>,
       <<"c", "a", "n", "U0027", "t">> >>

\* Faulty variant: the curated list as it is, not expanded.
get_stopwords_filter_en_unexpanded == STOPWORDS_EN_BASE

get_stopwords_filter_en == expand_stopwords_with_apostrophe_variants(STOPWORDS_EN_BASE)

(***************************************************************************)
(* The filters' text transforms.                                           *)
(***************************************************************************)
\* tantivy LowerCaser: every character lowercased on its own.
LowerCaser(s) == [i \in 1..Len(s) |-> to_lowercase(s[i])]

\* filters/outer_punctuation.rs: a first character of the exception list is
\* kept and scanning resumes after it; leading punctuation is skipped, then
\* trailing punctuation is cut.
RECURSIVE SkipLeading(_, _)
SkipLeading(s, i) ==
    IF i <= Len(s) /\ is_punctuation(s[i]) THEN SkipLeading(s, i + 1) ELSE i

RECURSIVE SkipTrailing(_, _, _)
SkipTrailing(s, lo, j) ==
    IF j >= lo /\ is_punctuation(s[j]) THEN SkipTrailing(s, lo, j - 1) ELSE j

\* Faulty variant: an exception character ends the leading scan wherever
\* it stands, not only as the first character.
OuterPunctuationFilter_allowed_anywhere(s, exceptions) ==
    LET solid == {i \in 1..Len(s) : ~is_punctuation(s[i]) \/ s[i] \in exceptions}
        start == IF solid = {} THEN Len(s) + 1
                 ELSE CHOOSE i \in solid : \A j \in solid : i <= j
        end == SkipTrailing(s, start, Len(s))
    IN  Slice(s, start, end)

\* Faulty variant: one leading punctuation character is removed, not all.
OuterPunctuationFilter_one_leading(s, exceptions) ==
    LET keep == IF Len(s) > 0 /\ s[1] \in exceptions THEN 1 ELSE 0
        start == IF keep + 1 <= Len(s) /\ is_punctuation(s[keep + 1])
                 THEN keep + 2 ELSE keep + 1
        end == SkipTrailing(s, start, Len(s))
    IN  Slice(s, 1, keep) \o Slice(s, start, end)

OuterPunctuationFilter(s, exceptions) ==
    LET keep == IF Len(s) > 0 /\ s[1] \in exceptions THEN 1 ELSE 0
        start == SkipLeading(s, keep + 1)
        end == SkipTrailing(s, start, Len(s))
    IN  Slice(s, 1, keep) \o Slice(s, start, end)

\* filters/possessive_contraction.rs: a final apostrophe + s/S, or a final
\* apostrophe, is cut; nothing else is.
PossessiveContractionFilter(s) ==
    LET n == Len(s)
    IN  IF n >= 2 /\ s[n] \in {"s", "S"} /\ s[n - 1] \in ApostropheSet
        THEN Slice(s, 1, n - 2)
        ELSE IF n >= 1 /\ s[n] \in ApostropheSet
        THEN Slice(s, 1, n - 1)
        ELSE s

(***************************************************************************)
(* The token stream of an analyzer: tantivy's WhitespaceTokenizer under    *)
(* the filters of its chain, the last filter outermost.  The stream's      *)
(* state is the char iterator, the one Token every stage edits in place,   *)
(* and the texts the stopword predicate has seen.                          *)
(***************************************************************************)
KapicheExceptions == {"#", "@"}

kapiche_analyzer ==
    <<"OuterPunctuationFilter", "PossessiveContractionFilter">>

\* Faulty variant: the LowerCaser left out.
kapiche_analyzer_lower_unfolded ==
    <<"OuterPunctuationFilter", "PossessiveContractionFilter">>

kapiche_analyzer_lower ==
    <<"LowerCaser", "OuterPunctuationFilter", "PossessiveContractionFilter">>

\* Faulty variant: the StopWordFilter ahead of the OuterPunctuationFilter.
kapiche_analyzer_lower_with_stopwords_first ==
    <<"LowerCaser", "StopWordFilter", "OuterPunctuationFilter",
      "PossessiveContractionFilter">>

kapiche_analyzer_lower_with_stopwords ==
    <<"LowerCaser", "OuterPunctuationFilter", "StopWordFilter",
      "PossessiveContractionFilter">>

Analyzers ==
    {"kapiche_analyzer", "kapiche_analyzer_lower",
     "kapiche_analyzer_lower_with_stopwords"}

Chain(a) ==
    CASE a = "kapiche_analyzer" -> kapiche_analyzer
      [] a = "kapiche_analyzer_lower" -> kapiche_analyzer_lower
      [] a = "kapiche_analyzer_lower_with_stopwords" ->
             kapiche_analyzer_lower_with_stopwords

\* Token::default().
token_default == [text |-> << >>, position |-> USIZE_MAX]

\* Faulty variant: the text is cleared, the position is left as it was.
token_reset_text_only(t) == [t EXCEPT !.text = << >>]

\* Token::reset, which WhitespaceTokenizer::token_stream calls on its buffer.
token_reset(t) == [t EXCEPT !.text = << >>, !.position = USIZE_MAX]

RECURSIVE SkipWhitespace(_, _)
SkipWhitespace(txt, i) ==
    IF i <= Len(txt) /\ is_ascii_whitespace(txt[i]) THEN SkipWhitespace(txt, i + 1) ELSE i

RECURSIVE search_token_end(_, _)
search_token_end(txt, i) ==
    IF i <= Len(txt) /\ ~is_ascii_whitespace(txt[i]) THEN search_token_end(txt, i + 1) ELSE i

\* WhitespaceTokenStream::advance: the position moves on (wrapping) before
\* the scan, whether or not a token is found; the whitespace that ends a
\* token is consumed with it.
WhitespaceTokenizer(txt, st) ==
    LET position == (st.token.position + 1) % (USIZE_MAX + 1)
        from == SkipWhitespace(txt, st.chars)
        to == search_token_end(txt, from)
    IN  IF from > Len(txt)
        THEN [st EXCEPT !.ok = FALSE, !.chars = from,
                        !.token = [text |-> << >>, position |-> position]]
        ELSE [st EXCEPT !.ok = TRUE,
                        !.chars = IF to <= Len(txt) THEN to + 1 ELSE to,
                        !.token = [text |-> Slice(txt, from, to - 1),
                                   position |-> position]]

\* StopWordFilter::remove(words): the predicate of its stream.
StopWordFilter(s, words) == s \notin Range(words)

\* Faulty variant: a token stripped to nothing is not yielded.
OuterPunctuationEmits_nonempty(s) == s # << >>

\* OuterPunctuationFilter's stream yields every token of its tail, an empty
\* one included.
OuterPunctuationEmits(s) == TRUE

\* What filter f makes of a token text.
Transform(f, s) ==
    CASE f = "LowerCaser" -> LowerCaser(s)
      [] f = "OuterPunctuationFilter" -> OuterPunctuationFilter(s, KapicheExceptions)
      [] f = "PossessiveContractionFilter" -> PossessiveContractionFilter(s)
      [] f = "StopWordFilter" -> s

\* Whether filter f's stream yields the token it has just handled.
Yields(f, s) ==
    CASE f = "StopWordFilter" -> StopWordFilter(s, get_stopwords_filter_en)
      [] f = "OuterPunctuationFilter" -> OuterPunctuationEmits(s)
      [] OTHER -> TRUE

\* advance() of the stream made of the tokenizer and the first i filters of
\* chain: the filter advances its tail, handles the token in place, and
\* advances again when it does not yield that token.
RECURSIVE StreamAdvance(_, _, _, _)
StreamAdvance(txt, chain, i, st) ==
    IF i = 0 THEN WhitespaceTokenizer(txt, st)
    ELSE LET r == StreamAdvance(txt, chain, i - 1, st)
         IN  IF ~r.ok THEN r
             ELSE LET s == Transform(chain[i], r.token.text)
                      handled ==
                          [r EXCEPT !.token.text = s,
                                    !.cmp = IF chain[i] = "StopWordFilter"
                                            THEN Append(@, s) ELSE @]
                  IN  IF Yields(chain[i], s) THEN handled
                      ELSE StreamAdvance(txt, chain, i, handled)

\* Faulty variant: every token counts.
Counted_every_token(t) == TRUE

\* utils.rs, count_tokens: the test that lets a token count.
Counted(t) == t.position # USIZE_MAX

(***************************************************************************)
(* Documents.  A document is up to MaxTokens pieces of the vocabulary      *)
(* joined by single spaces (the empty piece gives leading, trailing and    *)
(* doubled whitespace), or one apostrophe variant of a base stopword.      *)
(***************************************************************************)
Vocabulary ==
    { << >>,
      <<"t", "h", "e">>,
      <<"T", "H", "E", ".">>,
      <<"t", "h", "e", "U2019", "s">>,
      <<"J", "o", "h", "n", "U0027", "s">>,
      <<"J", "O", "H", "N", "U2019", "S">>,
      <<"J", "o", "n", "e", "s", "U02BC">>,
      <<"a", "UA78B", "S">>,
      <<"b", "e", "s", "t", "!">>,
      <<".", ".", ".">>,
      <<"#", ".">>,
      <<"#", "T", "a", "g">>,
      <<".", "@", "a", "-", "a", ",">> }

StopwordVariants ==
    { replace_apostrophes(STOPWORDS_EN_BASE[i], APOSTROPHES[k]) :
          i \in {j \in 1..Len(STOPWORDS_EN_BASE) : contains_apostrophe(STOPWORDS_EN_BASE[j])},
          k \in 1..Len(APOSTROPHES) }

RECURSIVE Join(_)
Join(pieces) ==
    IF pieces = << >> THEN << >>
    ELSE IF Len(pieces) = 1 THEN pieces[1]
    ELSE pieces[1] \o <<" ">> \o Join(Tail(pieces))

\* Every string of up to MaxChars characters over a small alphabet as well.
TextAlphabet == {" ", "S", ".", "#", "U0027", "UA78B"}

Texts ==
    {Join(p) : p \in SeqsUpTo(Vocabulary, MaxTokens)}
        \cup StopwordVariants \cup SeqsUpTo(TextAlphabet, MaxChars)

\* What a caller-supplied analyzer may yield: any token, stopped or not.
CustomTokens == [text : {<< >>, <<"a">>}, position : {0, 1, USIZE_MAX}]
CustomTexts == {<< >>, <<"a">>, <<"a", " ", "a">>}

(***************************************************************************)
(* The analyzer in use: construction, then any number of documents.        *)
(***************************************************************************)
FilterIdle == /\ tok = << >> /\ exc = {} /\ prev = << >> /\ cur = << >> /\ fpc = "off"
ExpandIdle == /\ base = << >> /\ expanded = << >> /\ epc = "off"
PipelineIdle ==
    /\ analyzer = "none" /\ text = << >> /\ chars = 1 /\ token = token_default
    /\ out = << >> /\ compared = << >> /\ count = 0 /\ pc = "off" /\ docs = 0

Init ==
    /\ analyzer \in Analyzers \cup {"custom"}
    /\ text = << >>
    /\ chars = 1
    /\ token = token_default
    /\ out = << >>
    /\ compared = << >>
    /\ count = 0
    /\ pc = "idle"
    /\ docs = 0
    /\ FilterIdle
    /\ ExpandIdle

\* count_tokens, up to its loop: analyzer.token_stream(text) and count = 0.
token_stream(t) ==
    /\ pc = "idle"
    /\ docs < MaxDocs
    /\ text' = t
    /\ chars' = 1
    /\ token' = token_reset(token)
    /\ out' = << >>
    /\ compared' = << >>
    /\ count' = 0
    /\ pc' = "streaming"
    /\ docs' = docs + 1
    /\ UNCHANGED <<analyzer, filterVars, expandVars>>

\* One turn of count_tokens' loop over a crate analyzer's stream.
advance ==
    /\ pc = "streaming"
    /\ analyzer \in Analyzers
    /\ LET chain == Chain(analyzer)
           r == StreamAdvance(text, chain, Len(chain),
                              [ok |-> TRUE, chars |-> chars, token |-> token,
                               cmp |-> compared])
       IN  /\ chars' = r.chars
           /\ token' = r.token
           /\ compared' = r.cmp
           /\ IF r.ok
              THEN /\ out' = Append(out, r.token)
                   /\ count' = IF Counted(r.token) THEN count + 1 ELSE count
                   /\ pc' = pc
              ELSE /\ pc' = "done"
                   /\ UNCHANGED <<out, count>>
    /\ UNCHANGED <<analyzer, text, docs, filterVars, expandVars>>

\* One turn of the loop over a caller-supplied analyzer's stream: it yields
\* some token, or ends.
custom_advance ==
    /\ pc = "streaming"
    /\ analyzer = "custom"
    /\ \/ /\ text # << >>
          /\ Len(out) < MaxCustom
          /\ \E t \in CustomTokens :
                /\ token' = t
                /\ out' = Append(out, t)
                /\ count' = IF Counted(t) THEN count + 1 ELSE count
          /\ pc' = pc
       \/ /\ pc' = "done"
          /\ UNCHANGED <<token, out, count>>
    /\ UNCHANGED <<analyzer, text, chars, compared, docs, filterVars, expandVars>>

\* count_tokens returns count: the stream and the locals are dropped, the
\* analyzer and its Token buffer stay.
count_tokens_return ==
    /\ pc = "done"
    /\ pc' = "idle"
    /\ text' = << >>
    /\ chars' = 1
    /\ out' = << >>
    /\ compared' = << >>
    /\ count' = 0
    /\ UNCHANGED <<analyzer, token, docs, filterVars, expandVars>>

Next ==
    \/ \E t \in (IF analyzer = "custom" THEN CustomTexts ELSE Texts) : token_stream(t)
    \/ advance
    \/ custom_advance
    \/ count_tokens_return

Spec == Init /\ [][Next]_vars

(***************************************************************************)
(* Filter harness: one filter applied to one token text.  The texts are    *)
(* all strings of up to MaxLen characters over an alphabet that holds a    *)
(* letter, both cases of s, plain and exception punctuation, an apostrophe *)
(* that is punctuation and one that is not; and a suffix case for each of  *)
(* the eight apostrophes.                                                  *)
(***************************************************************************)
\* The eight apostrophe code points, spelled out for the inputs and the properties.
EightApostrophes ==
    {"U0027", "U2019", "U02BC", "U02BB", "U055A", "UA78B", "UA78C", "UFF07"}

FilterAlphabet == {"a", "s", "S", ".", "#", "U0027", "U02BC"}

ApostropheCases ==
    UNION { { <<"a", c>>, <<"a", c, "s">>, <<"a", c, "S">>, <<"a", c, "t">> } :
            c \in EightApostrophes }

FilterTokens ==
    SeqsUpTo(FilterAlphabet, MaxLen) \cup ApostropheCases
        \cup { <<"#", "H", "a", "s", "h", "T", "a", "g">>,
               <<".", ".", ".", "w", "o", "r", "d", ".", ".", ".">> }

ExceptionLists == { {}, {"#", "@"}, {".", "U0027"} }

InitFilter ==
    /\ tok \in FilterTokens
    /\ exc \in ExceptionLists
    /\ prev = tok
    /\ cur = tok
    /\ fpc = "start"
    /\ PipelineIdle
    /\ ExpandIdle

\* OuterPunctuationFilter::new(exc) applied to the token; it may run twice.
outer_punctuation ==
    /\ fpc \in {"start", "outer"}
    /\ prev' = cur
    /\ cur' = OuterPunctuationFilter(cur, exc)
    /\ fpc' = IF fpc = "start" THEN "outer" ELSE "outer_outer"
    /\ UNCHANGED <<tok, exc, pipelineVars, expandVars>>

\* PossessiveContractionFilter applied to the token.
possessive_contraction ==
    /\ fpc \in {"start", "outer"}
    /\ prev' = cur
    /\ cur' = PossessiveContractionFilter(cur)
    /\ fpc' = IF fpc = "start" THEN "possessive" ELSE "outer_possessive"
    /\ UNCHANGED <<tok, exc, pipelineVars, expandVars>>

NextFilter == outer_punctuation \/ possessive_contraction

SpecFilter == InitFilter /\ [][NextFilter]_vars

(***************************************************************************)
(* Expander harness: expand_stopwords_with_apostrophe_variants on a base   *)
(* list of up to MaxBase words, with and without apostrophes, one of them  *)
(* with two different ones; and on the curated list.                       *)
(***************************************************************************)
BaseWords ==
    { <<"a">>, <<"h", "i">>, <<"d", "U0027", "t">>,
      <<"U2019", "a", "UFF07">>, <<"U02BC">> }

BaseLists == SeqsUpTo(BaseWords, MaxBase) \cup {STOPWORDS_EN_BASE}

InitExpand ==
    /\ base \in BaseLists
    /\ expanded = << >>
    /\ epc = "start"
    /\ PipelineIdle
    /\ FilterIdle

expand ==
    /\ epc = "start"
    /\ expanded' = expand_stopwords_with_apostrophe_variants(base)
    /\ epc' = "done"
    /\ UNCHANGED <<base, pipelineVars, filterVars>>

NextExpand == expand

SpecExpand == InitExpand /\ [][NextExpand]_vars

(***************************************************************************)
(* Claims about the single filters (SpecFilter).                           *)
(***************************************************************************)
Min(S) == CHOOSE x \in S : \A y \in S : x <= y
Max(S) == CHOOSE x \in S : \A y \in S : x >= y

\* t with its leading and trailing punctuation removed, a kept first
\* character aside: what lies from the first to the last character after
\* the kept one that is not punctuation.
StrippedOf(t, kept) ==
    LET solid == {i \in (kept + 1)..Len(t) : t[i] \notin PunctuationChars}
    IN  IF solid = {} THEN << >> ELSE SubSeq(t, Min(solid), Max(solid))

EndsWithApostropheS(t) ==
    /\ Len(t) >= 2
    /\ t[Len(t)] \in {"s", "S"}
    /\ t[Len(t) - 1] \in EightApostrophes

EndsWithApostrophe(t) == Len(t) >= 1 /\ t[Len(t)] \in EightApostrophes

\* C2: the Possessive Contraction Filter removes a final apostrophe (any of
\* the eight) followed by s or S; else a final apostrophe; else nothing.
\* One suffix at most goes, and the rest of the text is unchanged.
C2_Possessive ==
    fpc = "possessive" =>
        /\ EndsWithApostropheS(tok) => cur = SubSeq(tok, 1, Len(tok) - 2)
        /\ (~EndsWithApostropheS(tok) /\ EndsWithApostrophe(tok))
              => cur = SubSeq(tok, 1, Len(tok) - 1)
        /\ (~EndsWithApostropheS(tok) /\ ~EndsWithApostrophe(tok)) => cur = tok
        /\ Len(tok) - Len(cur) <= 2
        /\ cur = SubSeq(tok, 1, Len(cur))

\* A fullwidth apostrophe + S is removed while an earlier apostrophe stays.
C2_Witness ==
    /\ fpc = "possessive"
    /\ \E i \in 1..Len(cur) : cur[i] \in EightApostrophes
    /\ Len(cur) = Len(tok) - 2
    /\ tok[Len(tok)] = "S"

RemoveAt(t, i) == SubSeq(t, 1, i - 1) \o SubSeq(t, i + 1, Len(t))

\* C8: the Outer Punctuation Filter applied to its own output gives that
\* output again, or that output less one exception character.
C8_Idempotent ==
    fpc = "outer_outer" =>
        \/ cur = prev
        \/ \E i \in 1..Len(prev) : prev[i] \in exc /\ cur = RemoveAt(prev, i)

\* The first pass stripped something and kept an exception character.
C8_Witness ==
    /\ fpc = "outer_outer"
    /\ Len(prev) < Len(tok)
    /\ Len(prev) >= 2
    /\ prev[1] \in exc
    /\ cur = prev

(***************************************************************************)
(* Claims about the stopword expander (SpecExpand).                        *)
(***************************************************************************)
GroupSize(w) == IF \E j \in 1..Len(w) : w[j] \in EightApostrophes THEN 8 ELSE 1

RECURSIVE Offset(_, _)
Offset(b, i) == IF i <= 1 THEN 0 ELSE Offset(b, i - 1) + GroupSize(b[i - 1])

\* C3: the expanded list is, in base order, one group per base entry: the
\* entry itself when it has no apostrophe, else eight strings, the k-th
\* being the entry with every apostrophe replaced by the k-th of the
\* APOSTROPHES table.  Its length is eight times the apostrophe-bearing
\* entries plus the others.
C3_Expansion ==
    epc = "done" =>
        /\ Len(APOSTROPHES) = 8
        /\ Len(expanded) =
              8 * Cardinality({i \in 1..Len(base) : GroupSize(base[i]) = 8})
              + Cardinality({i \in 1..Len(base) : GroupSize(base[i]) = 1})
        /\ \A i \in 1..Len(base) :
              LET w == base[i]
                  at == Offset(base, i)
              IN  IF GroupSize(w) = 1
                  THEN expanded[at + 1] = w
                  ELSE \A k \in 1..8 :
                          LET e == expanded[at + k]
                          IN  /\ Len(e) = Len(w)
                              /\ \A j \in 1..Len(w) :
                                    e[j] = IF w[j] \in EightApostrophes
                                           THEN APOSTROPHES[k] ELSE w[j]

\* A list of both kinds of entry, one with two different apostrophes.
C3_Witness ==
    /\ epc = "done"
    /\ base = << <<"U2019", "a", "UFF07">>, <<"h", "i">>, <<"d", "U0027", "t">> >>
    /\ Len(expanded) = 17
    /\ expanded[3] = <<"U02BC", "a", "U02BC">>
    /\ expanded[9] = <<"h", "i">>

(***************************************************************************)
(* Claims about the analyzers and count_tokens (Spec).                     *)
(***************************************************************************)
\* The maximal runs of non-whitespace characters of a text, in order.
RECURSIVE SplitWhitespace(_)
SplitWhitespace(txt) ==
    IF txt = << >> THEN << >>
    ELSE IF txt[1] = " " THEN SplitWhitespace(Tail(txt))
    ELSE LET blanks == {j \in 1..Len(txt) : txt[j] = " "}
             n == IF blanks = {} THEN Len(txt) ELSE Min(blanks) - 1
         IN  <<SubSeq(txt, 1, n)>> \o SplitWhitespace(SubSeq(txt, n + 1, Len(txt)))

TextsOf(tokens) == [i \in 1..Len(tokens) |-> tokens[i].text]

\* Every token a freshly constructed analyzer a yields for txt.
RECURSIVE Collect(_, _, _)
Collect(txt, chain, st) ==
    LET r == StreamAdvance(txt, chain, Len(chain), st)
    IN  IF r.ok THEN <<r.token>> \o Collect(txt, chain, r) ELSE << >>

FreshStream(a, txt) ==
    Collect(txt, Chain(a),
            [ok |-> TRUE, chars |-> 1, token |-> token_default, cmp |-> << >>])

\* C4: count_tokens' count is the number of yielded tokens whose position is
\* not usize::MAX: a stopped token adds nothing, any other token adds one;
\* the count of the empty text is 0.
C4_Count ==
    /\ count = Cardinality({i \in 1..Len(out) : out[i].position # USIZE_MAX})
    /\ (pc = "done" /\ text = << >>) => count = 0

\* A stream of a stopped token and a live one is counted as one.
C4_Witness ==
    /\ pc = "done"
    /\ Len(out) = 2
    /\ out[1].position = USIZE_MAX
    /\ out[2].position # USIZE_MAX
    /\ count = 1

IsStopword(s) == s \in Range(get_stopwords_filter_en)
NotStopword(s) == ~IsStopword(s)

MapSeq(Op(_), s) == [i \in 1..Len(s) |-> Op(s[i])]
StripOuter(s) == OuterPunctuationFilter(s, KapicheExceptions)

\* C5 as stated: in kapiche_analyzer_lower_with_stopwords the stopword
\* comparison is made on the lowercased text before outer punctuation is
\* stripped, and punctuation and possessive stripping follow in that order.
C5_StopBeforePunctuation ==
    (analyzer = "kapiche_analyzer_lower_with_stopwords" /\ pc = "done") =>
        LET folded == MapSeq(LowerCaser, SplitWhitespace(text))
        IN  /\ compared = folded
            /\ TextsOf(out) =
                  MapSeq(PossessiveContractionFilter,
                         MapSeq(StripOuter, SelectSeq(folded, NotStopword)))

\* C5 as amended: the order is whitespace tokenization, case folding, outer
\* punctuation stripping, stopword removal, possessive stripping; the
\* stopword comparison is made on text that is lowercased and stripped of
\* outer punctuation but not of a possessive, and possessive stripping is
\* the last stage.
C5_StopAfterPunctuation ==
    (analyzer = "kapiche_analyzer_lower_with_stopwords" /\ pc = "done") =>
        LET stripped == MapSeq(StripOuter, MapSeq(LowerCaser, SplitWhitespace(text)))
        IN  /\ compared = stripped
            /\ TextsOf(out) =
                  MapSeq(PossessiveContractionFilter, SelectSeq(stripped, NotStopword))

\* "THE." is a stopword only once lowercased and stripped, and is removed;
\* "the's" is compared with its possessive on, and survives as "the".
C5_Witness ==
    /\ analyzer = "kapiche_analyzer_lower_with_stopwords"
    /\ pc = "done"
    /\ SplitWhitespace(text) = << <<"T", "H", "E", ".">>, <<"t", "h", "e", "U2019", "s">> >>
    /\ TextsOf(out) = << <<"t", "h", "e">> >>

\* C6: every apostrophe variant of every apostrophe-bearing entry of the
\* curated list is in get_stopwords_filter_en(), and as a document it gives
\* kapiche_analyzer_lower_with_stopwords no live token.
C6_ApostropheVariantsStopped ==
    /\ \A i \in 1..Len(STOPWORDS_EN_BASE) : \A a \in EightApostrophes :
          LET w == STOPWORDS_EN_BASE[i]
              v == [j \in 1..Len(w) |-> IF w[j] \in EightApostrophes THEN a ELSE w[j]]
          IN  (\E j \in 1..Len(w) : w[j] \in EightApostrophes)
                  => \E n \in 1..Len(get_stopwords_filter_en) :
                        get_stopwords_filter_en[n] = v
    /\ (analyzer = "kapiche_analyzer_lower_with_stopwords" /\ pc = "done"
          /\ \E i \in 1..Len(STOPWORDS_EN_BASE) : \E a \in EightApostrophes :
                /\ \E j \in 1..Len(STOPWORDS_EN_BASE[i]) :
                      STOPWORDS_EN_BASE[i][j] \in EightApostrophes
                /\ text = [j \in 1..Len(STOPWORDS_EN_BASE[i]) |->
                              IF STOPWORDS_EN_BASE[i][j] \in EightApostrophes
                              THEN a ELSE STOPWORDS_EN_BASE[i][j]])
          => (out = << >> /\ count = 0)

\* "can't" spelled with the capital saltillo, which the LowerCaser turns
\* into the small one, is removed.
C6_Witness ==
    /\ analyzer = "kapiche_analyzer_lower_with_stopwords"
    /\ pc = "done"
    /\ text = <<"c", "a", "n", "UA78B", "t">>
    /\ compared = << <<"c", "a", "n", "UA78C", "t">> >>
    /\ out = << >>
    /\ count = 0

\* C7: whatever documents an analyzer instance has handled before, the
\* tokens and the count it gives for a text are those of a freshly
\* constructed analyzer of the same kind.
C7_NoStateBetweenDocuments ==
    (analyzer \in Analyzers /\ pc = "done") =>
        /\ out = FreshStream(analyzer, text)
        /\ count = Len(FreshStream(analyzer, text))

\* A second document, after a first one, with two tokens.
C7_Witness ==
    /\ analyzer \in Analyzers
    /\ pc = "done"
    /\ docs = 2
    /\ Len(out) = 2
    /\ count = 2

C10_FoldingCommutes ==
    (analyzer = "kapiche_analyzer_lower" /\ pc = "done") =>
        LET raw == FreshStream("kapiche_analyzer", text)
        IN  out = [i \in 1..Len(raw) |->
                      [text |-> LowerCaser(raw[i].text), position |-> raw[i].position]]

\* An uppercase possessive with the capital saltillo, and an uppercase S.
C10_Witness ==
    /\ analyzer = "kapiche_analyzer_lower"
    /\ pc = "done"
    /\ SplitWhitespace(text) = << <<"a", "UA78B", "S">>, <<"J", "O", "H", "N", "U2019", "S">> >>
    /\ TextsOf(out) = << <<"a">>, <<"j", "o", "h", "n">> >>

====
